---- MODULE Spec2Model ----
(***************************************************************************)
(* Model of SimpleRCMModel (src/simple_rcm_model.py): the capacity         *)
(* planning engine of the RCM case study.                                  *)
(*                                                                         *)
(* The state is one SimpleRCMModel object (its attributes, variable self)  *)
(* and a record of the calls made on it with what each call returned,      *)
(* raised and printed.  Real numbers (Python floats) are modelled as exact *)
(* rationals <<numerator, denominator>> in lowest terms with a positive    *)
(* denominator: every decimal literal of the source is the rational it     *)
(* denotes (0.85 is <<17, 20>>).  Headcounts produced by np.ceil are       *)
(* integers.                                                               *)
(***************************************************************************)
EXTENDS Integers, Sequences, FiniteSets, TLC

VARIABLES self, last, returned, ncalls

vars == <<self, last, returned, ncalls>>

(***************************************************************************)
(* Bounds of the exploration.                                              *)
(***************************************************************************)
\* number of calls made on one model object
MaxCalls == 3
\* integer arguments passed as month range over -MonthsBelow..MaxMonth
MonthsBelow == 2
MaxMonth == 5
\* arguments passed as week range over 0..MaxWeek
MaxWeek == 13

(***************************************************************************)
(* Rational arithmetic: the float operators of the source, as functions.   *)
(***************************************************************************)
\* the rationals as pairs, with nan and inf among them
Pairs == Int \X Int

Abs[n \in Int] == IF n < 0 THEN -n ELSE n

GCD[a \in Nat, b \in Nat] == IF b = 0 THEN a ELSE GCD[b, a % b]

\* the rational n/d (d # 0) in lowest terms with a positive denominator
Rat[n \in Int, d \in Int] ==
    LET g == GCD[Abs[n], Abs[d]]
        s == IF d < 0 THEN -1 ELSE 1
    IN  <<(s * n) \div g, Abs[d] \div g>>

\* an int used in float arithmetic
R[n \in Int] == <<n, 1>>

RAdd[a \in Pairs, b \in Pairs] ==
    LET g == GCD[a[2], b[2]]
    IN  Rat[a[1] * (b[2] \div g) + b[1] * (a[2] \div g), (a[2] \div g) * b[2]]

RNeg[a \in Pairs] == <<-a[1], a[2]>>

RSub[a \in Pairs, b \in Pairs] == RAdd[a, RNeg[b]]

RMul[a \in Pairs, b \in Pairs] ==
    LET g1 == GCD[Abs[a[1]], b[2]]
        g2 == GCD[Abs[b[1]], a[2]]
    IN  <<(a[1] \div g1) * (b[1] \div g2), (a[2] \div g2) * (b[2] \div g1)>>

\* a / b for b # 0
RDiv[a \in Pairs, b \in Pairs] ==
    RMul[a, IF b[1] < 0 THEN <<-b[2], -b[1]>> ELSE <<b[2], b[1]>>]

RLeq[a \in Pairs, b \in Pairs] == a[1] * b[2] <= b[1] * a[2]

RLt[a \in Pairs, b \in Pairs] == a[1] * b[2] < b[1] * a[2]

RMin[a \in Pairs, b \in Pairs] == IF RLt[b, a] THEN b ELSE a

\* np.ceil, as an integer
Ceil[a \in Pairs] == -((-a[1]) \div a[2])

\* x / y where y is a numpy float: nan or inf when y is 0 (numpy warns and
\* does not raise), the quotient otherwise
NaN == <<0, 0>>

Inf == <<1, 0>>

NpDiv[x \in Pairs, y \in Pairs] ==
    IF y[1] = 0 THEN (IF x[1] = 0 THEN NaN ELSE Inf) ELSE RDiv[x, y]

(***************************************************************************)
(* The Parameter Set: the attributes __init__ sets.                        *)
(***************************************************************************)
REVENUE_RAMP_UP == (1 :> <<1, 2>>) @@ (2 :> <<3, 4>>) @@ (3 :> <<1, 1>>)

PROCESS_STEPS ==
    <<"Extract Encounters", "Submit Claims", "Reconcile", "Denial Analysis",
      "Resubmission">>

DENIAL_RAMP_UP ==
    (1 :> <<0, 1>>) @@ (2 :> <<0, 1>>) @@ (3 :> <<1, 4>>) @@ (4 :> <<1, 2>>)
    @@ (5 :> <<3, 4>>) @@ (6 :> <<1, 1>>)

IMPLEMENTATION_METRICS ==
    [onboarding_days_per_account |-> 14,
     training_hours_per_analyst |-> 40,
     qa_review_rate |-> <<1, 10>>,
     trainer_ratio |-> 10,
     qa_analyst_ratio |-> 15,
     ramp_up_efficiency |->
         (1 :> <<1, 2>>) @@ (2 :> <<3, 4>>) @@ (3 :> <<9, 10>>)]

QUALITY_METRICS ==
    [error_rate_target |-> <<1, 50>>,
     error_cost_multiplier |-> <<2, 1>>,
     retraining_hours |-> 8,
     quality_bonus_threshold |-> <<49, 50>>,
     quality_bonus_amount |-> 50]

HIRING_TEAM ==
    [us_hiring_lead |-> [count |-> 1, salary |-> 10000],
     india_country_manager |-> [count |-> 1, salary |-> 798],
     india_hr_recruiter |-> [count |-> 2, salary |-> 532],
     india_trainer |-> [salary |-> 665],
     india_qa_analyst |-> [salary |-> 598]]

OFFICE_SETUP ==
    [furniture_per_person |-> 200,
     it_per_person |-> 300,
     infrastructure |-> 15000,
     legal_and_registration |-> 10000,
     renovation |-> 15000,
     amortization_months |-> 12]

\* the object __init__ leaves behind
NewModel ==
    LET ANALYST_BASE_SALARY == 355
        FULLY_LOADED_MULTIPLIER == <<3, 2>>
        ANALYST_SALARY == RMul[R[ANALYST_BASE_SALARY], FULLY_LOADED_MULTIPLIER]
        TOTAL_ACCOUNTS == 100
        TOTAL_CLAIMS_VALUE == 200000000
        AVG_CLAIM_VALUE == 200
        HOURS_PER_DAY == 8
        DAYS_PER_MONTH == 22
        MINUTES_PER_HOUR == 60
    IN  [TOTAL_ACCOUNTS |-> TOTAL_ACCOUNTS,
         TOTAL_CLAIMS_VALUE |-> TOTAL_CLAIMS_VALUE,
         AVG_CLAIM_VALUE |-> AVG_CLAIM_VALUE,
         REVENUE_PERCENTAGE |-> <<1, 20>>,
         TARGET_MARGIN |-> <<3, 5>>,
         COLLECTION_RATE |-> <<19, 20>>,
         ACCOUNT_CHURN_RATE |-> <<1, 20>>,
         REVENUE_RAMP_UP |-> REVENUE_RAMP_UP,
         TARGET_APPROVAL_RATE |-> <<9, 10>>,
         DENIAL_RATE |-> <<1, 10>>,
         MIN_TIME_PER_STEP |-> 2,
         MAX_TIME_PER_STEP |-> 5,
         SUBMISSION_SLA |-> 5,
         DENIAL_WORK_SLA |-> 3,
         ACCOUNTS_MONTH1 |-> 10,
         ACCOUNTS_MONTH2 |-> 30,
         ACCOUNTS_MONTH3 |-> 60,
         ANALYST_BASE_SALARY |-> ANALYST_BASE_SALARY,
         FULLY_LOADED_MULTIPLIER |-> FULLY_LOADED_MULTIPLIER,
         ANALYST_SALARY |-> ANALYST_SALARY,
         MANAGER_SALARY |-> RMul[ANALYST_SALARY, <<3, 2>>],
         US_HIRING_LEAD_SALARY |-> 10000,
         INDIA_COUNTRY_MANAGER_SALARY |-> 798,
         INDIA_HR_RECRUITER_SALARY |-> 532,
         SOFTWARE_COST_PER_ANALYST |-> 200,
         OFFICE_COST_PER_ANALYST |-> 150,
         TRAINING_COST_PER_ANALYST |-> 50,
         INFRASTRUCTURE_COST |-> 5000,
         COMPLIANCE_COST |-> 3000,
         QA_COST |-> 2000,
         CUSTOMER_SUCCESS_COST |-> 3000,
         IMPLEMENTATION_COST |-> 2000,
         ANALYSTS_PER_MANAGER |-> 12,
         ACCOUNTS_PER_CUSTOMER_SUCCESS |-> 20,
         DENIAL_RECOVERY_RATE |-> <<3, 10>>,
         DENIAL_RECOVERY_COST_MULTIPLIER |-> <<2, 1>>,
         DENIAL_RECOVERY_VALUE_FACTOR |-> <<4, 5>>,
         PROCESS_STEPS |-> PROCESS_STEPS,
         HOURS_PER_DAY |-> HOURS_PER_DAY,
         DAYS_PER_MONTH |-> DAYS_PER_MONTH,
         MINUTES_PER_HOUR |-> MINUTES_PER_HOUR,
         MINUTES_PER_DAY |-> 480,
         AVAILABLE_TIME_FACTOR |-> <<17, 20>>,
         SUBMISSION_ALLOCATION |-> <<17, 20>>,
         DENIAL_ALLOCATION |-> <<3, 20>>,
         DENIAL_RAMP_UP |-> DENIAL_RAMP_UP,
         IMPLEMENTATION_METRICS |-> IMPLEMENTATION_METRICS,
         QUALITY_METRICS |-> QUALITY_METRICS,
         HIRING_TEAM |-> HIRING_TEAM,
         OFFICE_SETUP |-> OFFICE_SETUP,
         OFFICE_SETUP_COST |->
             OFFICE_SETUP.infrastructure + OFFICE_SETUP.legal_and_registration
             + OFFICE_SETUP.renovation,
         CLAIMS_PER_PRACTICE |->
             Rat[TOTAL_CLAIMS_VALUE, TOTAL_ACCOUNTS * AVG_CLAIM_VALUE],
         MINUTES_PER_MONTH |-> HOURS_PER_DAY * DAYS_PER_MONTH * MINUTES_PER_HOUR]

(***************************************************************************)
(* Python values and formatting.                                           *)
(***************************************************************************)
\* dict.get(key, default)
Get(dict, key, default) == IF key \in DOMAIN dict THEN dict[key] ELSE default

\* isinstance(month, int): bool is a subclass of int
isinstance_int(month) == month.type \in {"int", "bool"}

\* format(x, ".1f") of a non-negative number: the nearest tenth, ties to even
Fmt1[x \in Pairs] ==
    IF x[2] = 0 THEN (IF x = NaN THEN "nan" ELSE "inf")
    ELSE LET q == (10 * x[1]) \div x[2]
             r == (10 * x[1]) % x[2]
             t == IF 2 * r > x[2] \/ (2 * r = x[2] /\ q % 2 = 1)
                  THEN q + 1 ELSE q
         IN  ToString(t \div 10) \o "." \o ToString(t % 10)

\* str() of a whole numpy float
FmtCount(n) == ToString(n) \o ".0"

\* x * 100 where x may be nan or inf
Times100[x \in Pairs] == IF x[2] = 0 THEN x ELSE RMul[x, R[100]]

(***************************************************************************)
(* calculate_implementation_staff(month, total_analysts, active_accounts)  *)
(***************************************************************************)
\* onboarding staff for every active account, not for the new ones
calculate_implementation_staff_AllActive(s, month, total_analysts, active_accounts) ==
    IF month = 0 THEN 0
    ELSE LET trainers_for_analysts ==
                 Ceil[Rat[total_analysts, s.IMPLEMENTATION_METRICS.trainer_ratio]]
             qa_analysts ==
                 Ceil[Rat[total_analysts, s.IMPLEMENTATION_METRICS.qa_analyst_ratio]]
             onboarding_days ==
                 active_accounts * s.IMPLEMENTATION_METRICS.onboarding_days_per_account
             onboarding_staff ==
                 Ceil[Rat[onboarding_days, s.DAYS_PER_MONTH * s.HOURS_PER_DAY]]
         IN  trainers_for_analysts + qa_analysts + onboarding_staff

calculate_implementation_staff(s, month, total_analysts, active_accounts) ==
    IF month = 0 THEN 0
    ELSE LET trainers_for_analysts ==
                 Ceil[Rat[total_analysts, s.IMPLEMENTATION_METRICS.trainer_ratio]]
             qa_analysts ==
                 Ceil[Rat[total_analysts, s.IMPLEMENTATION_METRICS.qa_analyst_ratio]]
             new_accounts ==
                 IF month = 1 THEN s.ACCOUNTS_MONTH1
                 ELSE IF month = 2 THEN s.ACCOUNTS_MONTH2
                 ELSE s.ACCOUNTS_MONTH3
             onboarding_days ==
                 new_accounts * s.IMPLEMENTATION_METRICS.onboarding_days_per_account
             onboarding_staff ==
                 Ceil[Rat[onboarding_days, s.DAYS_PER_MONTH * s.HOURS_PER_DAY]]
         IN  trainers_for_analysts + qa_analysts + onboarding_staff

(***************************************************************************)
(* _get_denial_ramp_up_factor(week)                                        *)
(***************************************************************************)
\* absent weeks default to no capacity
get_denial_ramp_up_factor_DefaultZero(s, week) ==
    Get(s.DENIAL_RAMP_UP, week, <<0, 1>>)

get_denial_ramp_up_factor(s, week) == Get(s.DENIAL_RAMP_UP, week, <<1, 1>>)

(***************************************************************************)
(* calculate_monthly_metrics(month): the local variables of one call with  *)
(* a month that passed validation (month is the integer value).            *)
(***************************************************************************)
Max(a, b) == IF a >= b THEN a ELSE b

\* target_utilization and buffer_factor, locals of calculate_monthly_metrics
target_utilization == <<17, 20>>

buffer_factor == <<21, 20>>

\* the multiplier of the per-claim time for denial work
denial_time_multiplier == <<3, 2>>

\* the staffing floor: at least 2 analysts for coverage
MinAnalysts == 2

\* the floor left out
StaffingFloor_NoFloor(n) == n

StaffingFloor(n) == Max(n, MinAnalysts)

\* each month's new accounts instead of the running total
active_accounts_of_NotCumulative(s, month) ==
    IF month = 0 THEN 0
    ELSE IF month = 1 THEN s.ACCOUNTS_MONTH1
    ELSE IF month = 2 THEN s.ACCOUNTS_MONTH2
    ELSE s.ACCOUNTS_MONTH3

\* active accounts: the onboarding schedule accumulated through month
active_accounts_of(s, month) ==
    IF month = 0 THEN 0
    ELSE IF month = 1 THEN s.ACCOUNTS_MONTH1
    ELSE IF month = 2 THEN s.ACCOUNTS_MONTH1 + s.ACCOUNTS_MONTH2
    ELSE s.ACCOUNTS_MONTH1 + s.ACCOUNTS_MONTH2 + s.ACCOUNTS_MONTH3

\* the annual volume, not amortized over 12 months
monthly_claims_of_Annual(s, active_accounts) ==
    RMul[R[active_accounts], s.CLAIMS_PER_PRACTICE]

\* monthly claim volume
monthly_claims_of(s, active_accounts) ==
    RDiv[RMul[R[active_accounts], s.CLAIMS_PER_PRACTICE], R[12]]

\* rounded down instead of up
manager_count_of_Floor(s, total_analyst_count) ==
    total_analyst_count \div s.ANALYSTS_PER_MANAGER

\* manager count
manager_count_of(s, total_analyst_count) ==
    Ceil[Rat[total_analyst_count, s.ANALYSTS_PER_MANAGER]]

\* the overhead left out of the margin
gross_margin_of_NoOverhead(monthly_revenue, total_labor_cost, total_overhead) ==
    IF RLt[R[0], monthly_revenue]
    THEN RMul[RDiv[RSub[monthly_revenue, total_labor_cost], monthly_revenue],
              R[100]]
    ELSE R[0]

\* gross margin %, 0 without revenue
gross_margin_of(monthly_revenue, total_labor_cost, total_overhead) ==
    IF RLt[R[0], monthly_revenue]
    THEN RMul[RDiv[RSub[RSub[monthly_revenue, total_labor_cost],
                        total_overhead],
                   monthly_revenue], R[100]]
    ELSE R[0]

\* the cap at 100 left out
utilization_of_Uncapped(minutes_needed, minutes_per_day) ==
    IF RLt[R[0], minutes_per_day]
    THEN RMul[RDiv[minutes_needed, minutes_per_day], R[100]]
    ELSE R[0]

\* capacity utilization % of one stream, capped at 100
utilization_of(minutes_needed, minutes_per_day) ==
    RMin[IF RLt[R[0], minutes_per_day]
         THEN RMul[RDiv[minutes_needed, minutes_per_day], R[100]]
         ELSE R[0], R[100]]

\* the error rate has to be below the complement of the threshold
quality_bonus_eligible_of_Strict(error_rate, quality_bonus_threshold) ==
    RLt[error_rate, RSub[R[1], quality_bonus_threshold]]

\* the bonus is due when the error rate is at most 1 - threshold
quality_bonus_eligible_of(error_rate, quality_bonus_threshold) ==
    RLeq[error_rate, RSub[R[1], quality_bonus_threshold]]

\* the day's work has to fit into one day
sla_met_of_SameDay(minutes_needed, minutes_per_day, sla) ==
    RLeq[minutes_needed, minutes_per_day]

\* SLA compliance of a stream: the day's work fits into the SLA's days
sla_met_of(minutes_needed, minutes_per_day, sla) ==
    RLeq[minutes_needed, RMul[minutes_per_day, R[sla]]]

\* the share of the analysts is rounded down
allocated_analysts_of_RoundedDown(total_analyst_count, allocation) ==
    -Ceil[RNeg[RMul[R[total_analyst_count], allocation]]]

\* the analysts allocated to one stream: np.ceil of the stream's share
allocated_analysts_of(total_analyst_count, allocation) ==
    Ceil[RMul[R[total_analyst_count], allocation]]

\* the hiring team is paid on top of the core staff
total_labor_cost_of_OnTopOfCore(month, hiring_team_cost, core_labor_cost) ==
    IF month = 0
    THEN RAdd[R[hiring_team_cost], core_labor_cost]
    ELSE core_labor_cost

\* total labor cost: the hiring team alone in month 0, the core staff after
total_labor_cost_of(month, hiring_team_cost, core_labor_cost) ==
    IF month = 0 THEN R[hiring_team_cost] ELSE core_labor_cost

MonthlyLocals(s, month) ==
    LET active_accounts == active_accounts_of(s, month)
        monthly_claims == monthly_claims_of(s, active_accounts)
        approved_claims == RMul[monthly_claims, s.TARGET_APPROVAL_RATE]
        denied_claims == RMul[monthly_claims, s.DENIAL_RATE]
        avg_time_per_step == Rat[s.MIN_TIME_PER_STEP + s.MAX_TIME_PER_STEP, 2]
        base_time_per_claim == RMul[avg_time_per_step, R[Len(s.PROCESS_STEPS)]]
        daily_claims ==
            IF s.DAYS_PER_MONTH > 0
            THEN RDiv[monthly_claims, R[s.DAYS_PER_MONTH]] ELSE R[0]
        daily_denied_claims ==
            IF s.DAYS_PER_MONTH > 0
            THEN RDiv[denied_claims, R[s.DAYS_PER_MONTH]] ELSE R[0]
        total_minutes_needed ==
            RAdd[RMul[monthly_claims, base_time_per_claim],
                 RMul[RMul[denied_claims, base_time_per_claim],
                      denial_time_multiplier]]
        total_minutes_available_needed ==
            RMul[RDiv[total_minutes_needed, target_utilization], buffer_factor]
        total_analyst_count ==
            StaffingFloor(
                Ceil[RDiv[total_minutes_available_needed,
                          RMul[R[s.MINUTES_PER_MONTH], s.AVAILABLE_TIME_FACTOR]]])
        submission_analysts ==
            allocated_analysts_of(total_analyst_count, s.SUBMISSION_ALLOCATION)
        denial_analysts ==
            allocated_analysts_of(total_analyst_count, s.DENIAL_ALLOCATION)
        manager_count == manager_count_of(s, total_analyst_count)
        core_labor_cost ==
            RAdd[RMul[R[total_analyst_count], s.ANALYST_SALARY],
                 RMul[R[manager_count], s.MANAGER_SALARY]]
        hiring_team_cost ==
            IF month = 0
            THEN s.US_HIRING_LEAD_SALARY + s.INDIA_COUNTRY_MANAGER_SALARY
                 + (2 * s.INDIA_HR_RECRUITER_SALARY)
            ELSE 0
        total_labor_cost ==
            total_labor_cost_of(month, hiring_team_cost, core_labor_cost)
        total_staff == total_analyst_count + manager_count
        software_cost == R[total_staff * s.SOFTWARE_COST_PER_ANALYST]
        office_cost == R[total_staff * s.OFFICE_COST_PER_ANALYST]
        training_cost == R[total_staff * s.TRAINING_COST_PER_ANALYST]
        infrastructure_cost == s.INFRASTRUCTURE_COST
        compliance_cost == s.COMPLIANCE_COST
        qa_cost == s.QA_COST
        total_overhead ==
            RAdd[RAdd[RAdd[RAdd[RAdd[software_cost, office_cost], training_cost],
                           R[infrastructure_cost]], R[compliance_cost]],
                 R[qa_cost]]
        monthly_revenue ==
            RMul[RMul[approved_claims, R[s.AVG_CLAIM_VALUE]], s.REVENUE_PERCENTAGE]
        gross_margin ==
            gross_margin_of(monthly_revenue, total_labor_cost, total_overhead)
        submission_minutes_per_day ==
            RMul[R[submission_analysts * s.MINUTES_PER_DAY], s.AVAILABLE_TIME_FACTOR]
        denial_minutes_per_day ==
            RMul[R[denial_analysts * s.MINUTES_PER_DAY], s.AVAILABLE_TIME_FACTOR]
        submission_minutes_needed == RMul[daily_claims, base_time_per_claim]
        denial_minutes_needed ==
            RMul[daily_denied_claims,
                 RMul[base_time_per_claim, denial_time_multiplier]]
        submission_utilization ==
            utilization_of(submission_minutes_needed, submission_minutes_per_day)
        denial_utilization ==
            utilization_of(denial_minutes_needed, denial_minutes_per_day)
        submission_sla_met ==
            sla_met_of(submission_minutes_needed, submission_minutes_per_day,
                       s.SUBMISSION_SLA)
        denial_sla_met ==
            sla_met_of(denial_minutes_needed, denial_minutes_per_day,
                       s.DENIAL_WORK_SLA)
        implementation_staff ==
            calculate_implementation_staff(s, month, total_analyst_count,
                                           active_accounts)
        efficiency ==
            Get(s.IMPLEMENTATION_METRICS.ramp_up_efficiency, month, <<9, 10>>)
        error_rate == RMul[RSub[R[1], efficiency], R[2]]
        quality_bonus_eligible ==
            quality_bonus_eligible_of(error_rate,
                                      s.QUALITY_METRICS.quality_bonus_threshold)
        quality_bonus_cost ==
            IF month > 0
            THEN (IF quality_bonus_eligible
                  THEN R[total_analyst_count * s.QUALITY_METRICS.quality_bonus_amount]
                  ELSE R[0])
            ELSE R[0]
        error_cost ==
            IF month > 0
            THEN RMul[RMul[RMul[monthly_claims, error_rate],
                           s.QUALITY_METRICS.error_cost_multiplier],
                      base_time_per_claim]
            ELSE R[0]
    IN  [month |-> month,
         active_accounts |-> active_accounts,
         monthly_claims |-> monthly_claims,
         approved_claims |-> approved_claims,
         denied_claims |-> denied_claims,
         base_time_per_claim |-> base_time_per_claim,
         daily_claims |-> daily_claims,
         daily_denied_claims |-> daily_denied_claims,
         total_minutes_needed |-> total_minutes_needed,
         total_minutes_available_needed |-> total_minutes_available_needed,
         total_analyst_count |-> total_analyst_count,
         submission_analysts |-> submission_analysts,
         denial_analysts |-> denial_analysts,
         manager_count |-> manager_count,
         core_labor_cost |-> core_labor_cost,
         hiring_team_cost |-> hiring_team_cost,
         total_labor_cost |-> total_labor_cost,
         software_cost |-> software_cost,
         office_cost |-> office_cost,
         training_cost |-> training_cost,
         infrastructure_cost |-> infrastructure_cost,
         compliance_cost |-> compliance_cost,
         qa_cost |-> qa_cost,
         total_overhead |-> total_overhead,
         monthly_revenue |-> monthly_revenue,
         gross_margin |-> gross_margin,
         submission_minutes_per_day |-> submission_minutes_per_day,
         denial_minutes_per_day |-> denial_minutes_per_day,
         submission_minutes_needed |-> submission_minutes_needed,
         denial_minutes_needed |-> denial_minutes_needed,
         submission_utilization |-> submission_utilization,
         denial_utilization |-> denial_utilization,
         submission_sla_met |-> submission_sla_met,
         denial_sla_met |-> denial_sla_met,
         implementation_staff |-> implementation_staff,
         quality_bonus_cost |-> quality_bonus_cost,
         error_cost |-> error_cost,
         efficiency |-> IF month > 0 THEN efficiency ELSE R[0],
         error_rate |-> IF month > 0 THEN error_rate ELSE R[0]]

\* the metrics dictionary calculate_monthly_metrics returns
Metrics(s, arg, l) ==
    ("Month" :> arg) @@
    ("Active Accounts" :> l.active_accounts) @@
    ("Monthly Claims" :> l.monthly_claims) @@
    ("Approved Claims" :> l.approved_claims) @@
    ("Denied Claims" :> l.denied_claims) @@
    ("Approval Rate" :> RMul[s.TARGET_APPROVAL_RATE, R[100]]) @@
    ("Time per Claim (min)" :> l.base_time_per_claim) @@
    ("Daily Claims" :> l.daily_claims) @@
    ("Daily Denied Claims" :> l.daily_denied_claims) @@
    ("Total Analyst Count" :> l.total_analyst_count) @@
    ("Submission Analysts" :> l.submission_analysts) @@
    ("Denial Analysts" :> l.denial_analysts) @@
    ("Manager Count" :> l.manager_count) @@
    ("Core Labor Cost" :> l.core_labor_cost) @@
    ("Hiring Team Cost" :> l.hiring_team_cost) @@
    ("Total Labor Cost" :> l.total_labor_cost) @@
    ("Monthly Revenue" :> l.monthly_revenue) @@
    ("Gross Margin %" :> l.gross_margin) @@
    ("Submission SLA Met" :> l.submission_sla_met) @@
    ("Denial SLA Met" :> l.denial_sla_met) @@
    ("Submission Utilization %" :> l.submission_utilization) @@
    ("Denial Utilization %" :> l.denial_utilization) @@
    ("Implementation Staff" :> l.implementation_staff) @@
    ("Quality Bonus Cost" :> l.quality_bonus_cost) @@
    ("Error Cost" :> l.error_cost) @@
    ("Efficiency Rate" :> l.efficiency) @@
    ("Error Rate" :> l.error_rate) @@
    ("Software Cost" :> l.software_cost) @@
    ("Office Cost" :> l.office_cost) @@
    ("Training Cost" :> l.training_cost) @@
    ("Infrastructure Cost" :> l.infrastructure_cost) @@
    ("Compliance Cost" :> l.compliance_cost) @@
    ("QA Cost" :> l.qa_cost) @@
    ("Total Overhead" :> l.total_overhead)

\* the keys of a complete record
MetricKeys ==
    {"Month", "Active Accounts", "Monthly Claims", "Approved Claims",
     "Denied Claims", "Approval Rate", "Time per Claim (min)", "Daily Claims",
     "Daily Denied Claims", "Total Analyst Count", "Submission Analysts",
     "Denial Analysts", "Manager Count", "Core Labor Cost", "Hiring Team Cost",
     "Total Labor Cost", "Monthly Revenue", "Gross Margin %",
     "Submission SLA Met", "Denial SLA Met", "Submission Utilization %",
     "Denial Utilization %", "Implementation Staff", "Quality Bonus Cost",
     "Error Cost", "Efficiency Rate", "Error Rate", "Software Cost",
     "Office Cost", "Training Cost", "Infrastructure Cost", "Compliance Cost",
     "QA Cost", "Total Overhead"}

\* str(month) of a month that passed validation
MonthStr(month) ==
    IF month.type = "bool"
    THEN (IF month.val = 1 THEN "True" ELSE "False")
    ELSE ToString(month.val)

\* the text each print call of the debug logging writes, in order (print
\* ends each with a line end); the three headings start with an empty line
DebugLog(month, l) ==
    <<"\nMonth " \o MonthStr(month) \o " Utilization Analysis:",
      "Submission Analysts: " \o FmtCount(l.submission_analysts),
      "Denial Analysts: " \o FmtCount(l.denial_analysts),
      "Daily Claims: " \o Fmt1[l.daily_claims],
      "Daily Denied Claims: " \o Fmt1[l.daily_denied_claims],
      "Time per Claim: " \o Fmt1[l.base_time_per_claim] \o " minutes",
      "Time per Denial: "
          \o Fmt1[RMul[l.base_time_per_claim, denial_time_multiplier]]
          \o " minutes",
      "\nSubmission Stream:",
      "Minutes Needed per Day: " \o Fmt1[l.submission_minutes_needed],
      "Minutes Available per Day: " \o Fmt1[l.submission_minutes_per_day],
      "Submission Utilization: "
          \o Fmt1[Times100[NpDiv[l.submission_minutes_needed,
                                 l.submission_minutes_per_day]]] \o "%",
      "\nDenial Stream:",
      "Minutes Needed per Day: " \o Fmt1[l.denial_minutes_needed],
      "Minutes Available per Day: " \o Fmt1[l.denial_minutes_per_day],
      "Denial Utilization: "
          \o Fmt1[Times100[NpDiv[l.denial_minutes_needed,
                                 l.denial_minutes_per_day]]] \o "%">>

\* what a call leaves behind when it raises
NoReturn == <<>>

\* the upper end of the range off by one
MonthRejected_UpperOffByOne(month) ==
    ~isinstance_int(month) \/ month.val < 0 \/ month.val > 4

\* the validation of the month argument: TRUE when the call raises ValueError
MonthRejected(month) ==
    ~isinstance_int(month) \/ month.val < 0 \/ month.val > 3

\* the outcome of calculate_monthly_metrics(month): what it raises, returns,
\* prints and the divisors of its two unguarded divisions
calculate_monthly_metrics(s, month) ==
    IF MonthRejected(month)
    THEN [raised |-> "ValueError", ret |-> NoReturn, stdout |-> <<>>,
          divisors |-> <<>>]
    ELSE CHOOSE out \in
             {[raised |-> "none", ret |-> Metrics(s, month.val, l),
               stdout |-> DebugLog(month, l),
               divisors |-> <<l.submission_minutes_per_day,
                              l.denial_minutes_per_day>>] :
                  l \in {MonthlyLocals(s, month.val)}} : TRUE

(***************************************************************************)
(* generate_report(): one record per month of range(0, 4)                  *)
(***************************************************************************)
\* range(lo, hi) as a sequence
range(lo, hi) == [i \in 1..Max(hi - lo, 0) |-> lo + i - 1]

\* the three onboarding months only
ReportMonths_FromOne == range(1, 4)

ReportMonths == range(0, 4)

generate_report(s) ==
    CHOOSE out \in
        {[raised |-> "none",
          ret |-> [i \in DOMAIN calls |-> calls[i].ret],
          stdout |-> [i \in DOMAIN calls |-> calls[i].stdout],
          divisors |-> [i \in DOMAIN calls |-> calls[i].divisors]] :
             calls \in {[i \in DOMAIN ReportMonths |->
                            calculate_monthly_metrics(
                                s, [type |-> "int", val |-> ReportMonths[i]])]}} :
        TRUE

(***************************************************************************)
(* RCMDashboard.calculate_metrics(): the attributes the dashboard derives  *)
(* from the optimizer's solution and from the engine's record of each of   *)
(* the months 0..3.                                                        *)
(***************************************************************************)
\* staffing solutions SimpleRCMOptimizer.optimize() hands to the dashboard
Solutions ==
    {[submission_analysts |-> 197, denial_analysts |-> 35,
      implementation_staff |-> 45],
     [submission_analysts |-> 180, denial_analysts |-> 48,
      implementation_staff |-> 40]}

total_accounts == 100

\* 10/30/60/100 schedule
ramp_up_schedule == <<<<1, 10>>, <<3, 10>>, <<3, 5>>, <<1, 1>>>>

monthly_accounts ==
    [i \in DOMAIN ramp_up_schedule |-> RMul[R[total_accounts], ramp_up_schedule[i]]]

cs_staff(s) ==
    [i \in DOMAIN monthly_accounts |->
        Ceil[RDiv[monthly_accounts[i], R[s.ACCOUNTS_PER_CUSTOMER_SUCCESS]]]]

\* the overhead the dashboard adds up again from the record's cost entries
\* ('Setup Cost' is no entry of the record and counts 0)
dashboard_overhead(metrics) ==
    RAdd[RAdd[RAdd[RAdd[RAdd[RAdd[Get(metrics, "Software Cost", R[0]),
                                  Get(metrics, "Office Cost", R[0])],
                             Get(metrics, "Training Cost", R[0])],
                        R[Get(metrics, "Infrastructure Cost", 0)]],
                   R[Get(metrics, "Compliance Cost", 0)]],
              R[Get(metrics, "QA Cost", 0)]],
         R[Get(metrics, "Setup Cost", 0)]]

\* the entry of self.monthly_metrics for one month
DashboardRow(month, metrics, overhead) ==
    ("Month" :> month) @@
    ("Revenue" :> metrics["Monthly Revenue"]) @@
    ("Labor Cost" :> metrics["Total Labor Cost"]) @@
    ("Overhead" :> overhead) @@
    ("Net Margin" :> RSub[RSub[metrics["Monthly Revenue"],
                               metrics["Total Labor Cost"]], overhead]) @@
    ("Accounts" :> monthly_accounts[month + 1]) @@
    ("Submission SLA Met" :> metrics["Submission SLA Met"]) @@
    ("Denial SLA Met" :> metrics["Denial SLA Met"]) @@
    ("Submission Utilization" :> metrics["Submission Utilization %"]) @@
    ("Denial Utilization" :> metrics["Denial Utilization %"])

DashboardMonths == range(0, 4)

\* the dashboard's attributes after calculate_metrics(), the engine's
\* records it was given, and what the engine printed
calculate_metrics(s, solution) ==
    CHOOSE out \in
        {[raised |-> "none",
          ret |-> [submission_analysts |-> solution.submission_analysts,
                   denial_analysts |-> solution.denial_analysts,
                   managers |-> Ceil[Rat[solution.submission_analysts
                                         + solution.denial_analysts,
                                         s.ANALYSTS_PER_MANAGER]],
                   implementation_staff |-> solution.implementation_staff,
                   total_accounts |-> total_accounts,
                   ramp_up_schedule |-> ramp_up_schedule,
                   monthly_accounts |-> monthly_accounts,
                   cs_staff |-> cs_staff(s),
                   monthly_metrics |->
                       [i \in DOMAIN calls |->
                           DashboardRow(DashboardMonths[i], calls[i].ret,
                                        dashboard_overhead(calls[i].ret))]],
          records |-> [i \in DOMAIN calls |-> calls[i].ret],
          stdout |-> [i \in DOMAIN calls |-> calls[i].stdout],
          divisors |-> [i \in DOMAIN calls |-> calls[i].divisors]] :
             calls \in {[i \in DOMAIN DashboardMonths |->
                            calculate_monthly_metrics(
                                s, [type |-> "int", val |-> DashboardMonths[i]])]}} :
        TRUE

(***************************************************************************)
(* The arguments the calls are made with.                                  *)
(***************************************************************************)
IntArgs == {[type |-> "int", val |-> v] : v \in -MonthsBelow..MaxMonth}

\* True and False
BoolArgs == {[type |-> "bool", val |-> v] : v \in {0, 1}}

\* the float 1.0, the string '2' and None
NonIntArgs ==
    {[type |-> "float", val |-> 1], [type |-> "str", val |-> 2],
     [type |-> "NoneType", val |-> 0]}

MonthArgs == IntArgs \cup BoolArgs \cup NonIntArgs

\* total_analysts arguments of calculate_implementation_staff
AnalystArgs == {0, 2, 24, 93, 231}

(***************************************************************************)
(* The state machine: one model object and the calls made on it, one       *)
(* action per public operation.                                            *)
(*   self      the object's attributes                                     *)
(*   last      the latest call: operation, argument and outcome            *)
(*   returned  for each period, the records calculate_monthly_metrics has  *)
(*             returned for it, in call order, each tagged with the caller *)
(*   ncalls    the number of calls made so far                             *)
(***************************************************************************)
Periods == 0..3

Outcome(op, arg, out) ==
    [op |-> op, arg |-> arg, raised |-> out.raised, ret |-> out.ret,
     stdout |-> out.stdout, divisors |-> out.divisors]

Plain(ret) == [raised |-> "none", ret |-> ret, stdout |-> <<>>, divisors |-> <<>>]

Init ==
    /\ self = NewModel
    /\ last = Outcome("__init__", <<>>, Plain(<<>>))
    /\ returned = [p \in Periods |-> <<>>]
    /\ ncalls = 0

\* the running total of accounts accumulated in place on the object
CalculateMonthlyMetrics_Accumulating(month) ==
    \E out \in {calculate_monthly_metrics(self, month)} :
        /\ ncalls < MaxCalls
        /\ last' = Outcome("calculate_monthly_metrics", month, out)
        /\ returned' =
               IF out.raised = "none"
               THEN [returned EXCEPT ![month.val] =
                         Append(@, [via |-> "direct", rec |-> out.ret])]
               ELSE returned
        /\ ncalls' = ncalls + 1
        /\ self' =
               IF out.raised = "none" /\ month.val >= 2
               THEN [self EXCEPT !.ACCOUNTS_MONTH2 = @ + self.ACCOUNTS_MONTH1]
               ELSE self

CalculateMonthlyMetrics(month) ==
    \E out \in {calculate_monthly_metrics(self, month)} :
        /\ ncalls < MaxCalls
        /\ last' = Outcome("calculate_monthly_metrics", month, out)
        /\ returned' =
               IF out.raised = "none"
               THEN [returned EXCEPT ![month.val] =
                         Append(@, [via |-> "direct", rec |-> out.ret])]
               ELSE returned
        /\ ncalls' = ncalls + 1
        /\ UNCHANGED self

GenerateReport ==
    \E out \in {generate_report(self)} :
        /\ ncalls < MaxCalls
        /\ last' = Outcome("generate_report", <<>>, out)
        /\ returned' =
               [p \in Periods |->
                   LET mine == SelectSeq(out.ret, LAMBDA r : r["Month"] = p)
                   IN  returned[p] \o
                       [k \in DOMAIN mine |-> [via |-> "report", rec |-> mine[k]]]]
        /\ ncalls' = ncalls + 1
        /\ UNCHANGED self

CalculateImplementationStaff(month, total_analysts, active_accounts) ==
    /\ ncalls < MaxCalls
    /\ last' = Outcome("calculate_implementation_staff",
                       <<month, total_analysts, active_accounts>>,
                       Plain(calculate_implementation_staff(
                                 self, month, total_analysts, active_accounts)))
    /\ ncalls' = ncalls + 1
    /\ UNCHANGED <<self, returned>>

\* the dashboard computes its metrics: four calls of the engine, whose
\* records are kept next to the ones returned before
CalculateMetrics(solution) ==
    \E out \in {calculate_metrics(self, solution)} :
        /\ ncalls < MaxCalls
        /\ last' = Outcome("calculate_metrics", solution, out)
        /\ returned' =
               [p \in Periods |->
                   LET mine == SelectSeq(out.records, LAMBDA r : r["Month"] = p)
                   IN  returned[p] \o
                       [k \in DOMAIN mine |-> [via |-> "dashboard", rec |-> mine[k]]]]
        /\ ncalls' = ncalls + 1
        /\ UNCHANGED self

\* dict.setdefault in place of dict.get: the looked-up week is inserted
GetDenialRampUpFactor_SetDefault(week) ==
    /\ ncalls < MaxCalls
    /\ last' = Outcome("_get_denial_ramp_up_factor", week,
                       Plain(get_denial_ramp_up_factor(self, week)))
    /\ ncalls' = ncalls + 1
    /\ self' = [self EXCEPT !.DENIAL_RAMP_UP =
                    IF week \in DOMAIN @ THEN @ ELSE @ @@ (week :> <<1, 1>>)]
    /\ UNCHANGED returned

GetDenialRampUpFactor(week) ==
    /\ ncalls < MaxCalls
    /\ last' = Outcome("_get_denial_ramp_up_factor", week,
                       Plain(get_denial_ramp_up_factor(self, week)))
    /\ ncalls' = ncalls + 1
    /\ UNCHANGED <<self, returned>>

Next ==
    \/ \E month \in MonthArgs : CalculateMonthlyMetrics(month)
    \/ GenerateReport
    \/ \E month \in 0..3, total_analysts \in AnalystArgs :
           CalculateImplementationStaff(month, total_analysts, 0)
    \/ \E week \in 0..MaxWeek : GetDenialRampUpFactor(week)
    \/ \E solution \in Solutions : CalculateMetrics(solution)

Spec == Init /\ [][Next]_vars

(***************************************************************************)
(* The same machine on a model whose work-type allocation a caller has     *)
(* re-assigned after construction (the attributes are plain public         *)
(* attributes): the streams then run over capacity, and with an           *)
(* allocation of 0 a stream has no analyst and no capacity at all.         *)
(***************************************************************************)
\* (SUBMISSION_ALLOCATION, DENIAL_ALLOCATION) pairs, the shipped one first
Allocations ==
    {<<<<17, 20>>, <<3, 20>>>>, <<<<1, 2>>, <<1, 2>>>>,
     <<<<99, 100>>, <<1, 100>>>>, <<<<1, 1>>, <<0, 1>>>>}

TunedModels ==
    {[NewModel EXCEPT !.SUBMISSION_ALLOCATION = a[1], !.DENIAL_ALLOCATION = a[2]] :
         a \in Allocations}

InitTuned ==
    /\ self \in TunedModels
    /\ last = Outcome("__init__", <<>>, Plain(<<>>))
    /\ returned = [p \in Periods |-> <<>>]
    /\ ncalls = 0

SpecTuned == InitTuned /\ [][Next]_vars

(***************************************************************************)
(* The engine with other quality bonus thresholds (QUALITY_METRICS is a    *)
(* public attribute): with the shipped 0.98 no period earns the bonus,     *)
(* with lower thresholds some do.                                          *)
(***************************************************************************)
\* values of QUALITY_METRICS['quality_bonus_threshold'], the shipped one first
BonusThresholds == {<<49, 50>>, <<4, 5>>, <<1, 2>>, <<0, 1>>}

QualityModels ==
    {[NewModel EXCEPT !.QUALITY_METRICS.quality_bonus_threshold = t] :
         t \in BonusThresholds}

InitQuality ==
    /\ self \in QualityModels
    /\ last = Outcome("__init__", <<>>, Plain(<<>>))
    /\ returned = [p \in Periods |-> <<>>]
    /\ ncalls = 0

SpecQuality == InitQuality /\ [][Next]_vars

(***************************************************************************)
(* What the claims speak about.                                            *)
(***************************************************************************)
\* the latest call is a calculate_monthly_metrics call
IsMetricsCall == last.op = "calculate_monthly_metrics"

\* the latest call returned a record
ReturnedRecord == IsMetricsCall /\ last.raised = "none"

\* the month argument is an integer of the closed range 0..3
InDomain(month) == month.type \in {"int", "bool"} /\ month.val \in 0..3

\* every record the latest call returned: the record of a
\* calculate_monthly_metrics call, the rows of a generate_report call
LastRecords ==
    IF ReturnedRecord THEN {last.ret}
    ELSE IF last.op = "generate_report"
    THEN {last.ret[i] : i \in DOMAIN last.ret}
    ELSE {}

\* the onboarding schedule of the case study
Schedule == <<10, 30, 60>>

RECURSIVE CumulativeSum(_, _)
CumulativeSum(seq, p) == IF p = 0 THEN 0 ELSE seq[p] + CumulativeSum(seq, p - 1)

(***************************************************************************)
(* C1: calculate_monthly_metrics(month) raises the out-of-domain error     *)
(* (ValueError) exactly when month is not an integer of 0..3, and then     *)
(* returns no record; for a month of 0..3 it raises nothing, returns a     *)
(* record with every field, and the divisors of the two unguarded          *)
(* divisions of the debug output (the daily capacity of each stream) are   *)
(* strictly positive, so that no line printed is nan or inf.               *)
(***************************************************************************)
C1_DomainError ==
    IsMetricsCall =>
        /\ (last.raised = "ValueError") <=> ~InDomain(last.arg)
        /\ last.raised \in {"ValueError", "none"}
        /\ ~InDomain(last.arg) => DOMAIN last.ret = {}
        /\ InDomain(last.arg) =>
               /\ DOMAIN last.ret = MetricKeys
               /\ Len(last.divisors) = 2
               /\ \A k \in DOMAIN last.divisors :
                      /\ last.divisors[k][2] > 0
                      /\ last.divisors[k][1] > 0
               /\ last.stdout[11] \notin {"Submission Utilization: nan%",
                                          "Submission Utilization: inf%"}
               /\ last.stdout[15] \notin {"Denial Utilization: nan%",
                                          "Denial Utilization: inf%"}

\* a rejected call after the period-0 call, whose capacity rests on the
\* staffing floor alone, has been answered
C1_Witness ==
    /\ IsMetricsCall
    /\ last.raised = "ValueError"
    /\ last.arg.type = "int" /\ last.arg.val > 3
    /\ Len(returned[0]) > 0
    /\ returned[0][1].rec["Monthly Claims"] = R[0]
    /\ returned[0][1].rec["Total Analyst Count"] > 0

(***************************************************************************)
(* C2: for every period p of 0..3 the record's Active Accounts is the      *)
(* cumulative sum of the onboarding schedule (10, 30, 60) through p, 0 for *)
(* period 0, and Active Accounts never decreases as p increases.           *)
(***************************************************************************)
C2_ActiveAccounts ==
    /\ \A r \in LastRecords :
           r["Active Accounts"] = CumulativeSum(Schedule, r["Month"])
    /\ \A p \in Periods, q \in Periods :
           p <= q =>
               \A i \in DOMAIN returned[p], j \in DOMAIN returned[q] :
                   returned[p][i].rec["Active Accounts"]
                       <= returned[q][j].rec["Active Accounts"]

\* the records of two different periods have been returned, the later one
\* with more accounts
C2_Witness ==
    /\ ReturnedRecord
    /\ last.ret["Month"] = 3
    /\ last.ret["Active Accounts"] = 100
    /\ Len(returned[2]) > 0
    /\ returned[2][1].rec["Active Accounts"] = 40

(***************************************************************************)
(* C3: Total Analyst Count is the smallest integer headcount of at least 2 *)
(* whose productive monthly minutes, at target utilization, cover the      *)
(* buffered load: with load = (monthly claims x time per claim + denied    *)
(* claims x time per claim x 1.5) x buffer factor and capacity(n) =        *)
(* n x minutes per month x available time factor x target utilization,     *)
(* count >= 2, capacity(count) >= load, and count = 2 or                   *)
(* capacity(count - 1) < load.                                             *)
(***************************************************************************)
RequiredMinutes(r) ==
    RAdd[RMul[r["Monthly Claims"], r["Time per Claim (min)"]],
         RMul[RMul[r["Denied Claims"], r["Time per Claim (min)"]], <<3, 2>>]]

BufferedLoad(r) == RMul[RequiredMinutes(r), <<21, 20>>]

Capacity(n) ==
    RMul[RMul[RMul[R[n], R[self.MINUTES_PER_MONTH]], self.AVAILABLE_TIME_FACTOR],
         <<17, 20>>]

C3_AnalystCount ==
    \A r \in LastRecords :
        LET n == r["Total Analyst Count"]
        IN  /\ n >= 2
            /\ RLeq[BufferedLoad(r), Capacity(n)]
            /\ n = 2 \/ RLt[Capacity(n - 1), BufferedLoad(r)]

\* a record whose count the load decides, after one whose count the floor
\* decides
C3_Witness ==
    /\ ReturnedRecord
    /\ last.ret["Month"] > 0
    /\ last.ret["Total Analyst Count"] > 2
    /\ RLt[Capacity(last.ret["Total Analyst Count"] - 1), BufferedLoad(last.ret)]
    /\ Len(returned[0]) > 0
    /\ returned[0][1].rec["Total Analyst Count"] = 2
    /\ BufferedLoad(returned[0][1].rec) = R[0]

(***************************************************************************)
(* C4: in every record Gross Margin % x Monthly Revenue = (Monthly Revenue *)
(* - Total Labor Cost - Total Overhead) x 100 on the fields of that record *)
(* when Monthly Revenue > 0, and Gross Margin % is 0 when Monthly Revenue  *)
(* is 0.                                                                   *)
(***************************************************************************)
C4_GrossMargin ==
    \A r \in LastRecords :
        IF RLt[R[0], r["Monthly Revenue"]]
        THEN RMul[r["Gross Margin %"], r["Monthly Revenue"]]
                 = RMul[RSub[RSub[r["Monthly Revenue"], r["Total Labor Cost"]],
                             r["Total Overhead"]], R[100]]
        ELSE r["Monthly Revenue"] = R[0] /\ r["Gross Margin %"] = R[0]

\* a record with revenue and a margin, after the period-0 record without
\* revenue
C4_Witness ==
    /\ ReturnedRecord
    /\ RLt[R[0], last.ret["Monthly Revenue"]]
    /\ RLt[R[0], last.ret["Gross Margin %"]]
    /\ Len(returned[0]) > 0
    /\ returned[0][1].rec["Monthly Revenue"] = R[0]
    /\ returned[0][1].rec["Gross Margin %"] = R[0]

(***************************************************************************)
(* C5: in every record Submission Utilization % and Denial Utilization %   *)
(* lie in [0, 100], also when a stream needs more minutes a day than it    *)
(* has.                                                                    *)
(***************************************************************************)
InPercentRange(x) == RLeq[R[0], x] /\ RLeq[x, R[100]]

C5_UtilizationRange ==
    \A r \in LastRecords :
        /\ InPercentRange(r["Submission Utilization %"])
        /\ InPercentRange(r["Denial Utilization %"])

\* a record of a stream that needs more minutes a day than it has, reported
\* at 100
C5_Witness ==
    /\ ReturnedRecord
    /\ RLt[last.divisors[1],
           RMul[last.ret["Daily Claims"], last.ret["Time per Claim (min)"]]]
    /\ last.ret["Submission Utilization %"] = R[100]
    /\ RLt[R[0], last.ret["Denial Utilization %"]]
    /\ RLt[last.ret["Denial Utilization %"], R[100]]

(***************************************************************************)
(* C6: generate_report returns exactly one record per period 0..3 in       *)
(* ascending order: it has 4 rows, row i (counted from 0) has Month = i    *)
(* and is the record calculate_monthly_metrics(i) returns, as computed on  *)
(* the object and as returned by every call made for period i.             *)
(***************************************************************************)
C6_ReportRows ==
    last.op = "generate_report" =>
        /\ last.raised = "none"
        /\ Len(last.ret) = 4
        /\ \A i \in 0..3 :
               /\ last.ret[i + 1]["Month"] = i
               /\ last.ret[i + 1]
                      = calculate_monthly_metrics(self, [type |-> "int",
                                                         val |-> i]).ret
               /\ \A k \in DOMAIN returned[i] :
                      returned[i][k].rec = last.ret[i + 1]

\* a report made after direct calls for the first and the last period
C6_Witness ==
    /\ last.op = "generate_report"
    /\ Len(returned[0]) = 2 /\ returned[0][1].via = "direct"
    /\ Len(returned[3]) = 2 /\ returned[3][1].via = "direct"
    /\ returned[3][2].via = "report"

(***************************************************************************)
(* C7: any two calls of calculate_monthly_metrics for the same period p,   *)
(* made directly or by generate_report, return identical records, whatever *)
(* calls were made before or between them.                                 *)
(***************************************************************************)
C7_Deterministic ==
    \A p \in Periods :
        \A i \in DOMAIN returned[p], j \in DOMAIN returned[p] :
            returned[p][i].rec = returned[p][j].rec

\* two direct calls for one period with a report between them, and a
\* rejected call
C7_Witness ==
    \E p \in Periods :
        /\ Len(returned[p]) = 3
        /\ returned[p][1].via = "direct"
        /\ returned[p][2].via = "report"
        /\ returned[p][3].via = "direct"
        /\ returned[p][1].rec["Active Accounts"] > 0

(***************************************************************************)
(* C8: no call, successful or failing, changes an attribute set in         *)
(* __init__: every step leaves self as it was.                             *)
(***************************************************************************)
C8_ParametersUnchanged == [][self' = self]_vars

\* a rejected call made after successful calls finds the object as
\* __init__ left it
C8_Witness ==
    /\ ncalls = MaxCalls
    /\ IsMetricsCall /\ last.raised = "ValueError"
    /\ \E p \in Periods : Len(returned[p]) > 0
    /\ self = NewModel

(***************************************************************************)
(* C9: in every record Manager Count is the ceiling of Total Analyst Count *)
(* over 12: Manager Count x 12 >= Total Analyst Count >                    *)
(* (Manager Count - 1) x 12.                                               *)
(***************************************************************************)
C9_ManagerCount ==
    \A r \in LastRecords :
        /\ r["Manager Count"] * 12 >= r["Total Analyst Count"]
        /\ r["Total Analyst Count"] > (r["Manager Count"] - 1) * 12

\* a record whose analysts do not fill the last manager's span, after one
\* whose analysts fill every span exactly
C9_Witness ==
    /\ ReturnedRecord
    /\ last.ret["Total Analyst Count"] = 93
    /\ last.ret["Manager Count"] = 8
    /\ Len(returned[1]) > 0
    /\ returned[1][1].rec["Total Analyst Count"] = 24
    /\ returned[1][1].rec["Manager Count"] = 2

(***************************************************************************)
(* C10: claims-per-account is total_claims_value / (total_accounts x       *)
(* avg_claim_value) = 10,000 and the denial rate is 1 - approval rate; in  *)
(* every record Monthly Claims x 12 = Active Accounts x claims-per-        *)
(* account, Approved Claims = Monthly Claims x approval rate, Denied       *)
(* Claims = Monthly Claims x denial rate and Approved + Denied = Monthly   *)
(* Claims; the period-3 record has 83,333.3 claims, 75,000 approved and    *)
(* 8,333.3 denied (to one decimal).                                        *)
(***************************************************************************)
C10_ClaimVolume ==
    /\ self.CLAIMS_PER_PRACTICE = R[10000]
    /\ RMul[self.CLAIMS_PER_PRACTICE,
            R[self.TOTAL_ACCOUNTS * self.AVG_CLAIM_VALUE]]
           = R[self.TOTAL_CLAIMS_VALUE]
    /\ self.DENIAL_RATE = RSub[R[1], self.TARGET_APPROVAL_RATE]
    /\ \A r \in LastRecords :
           /\ RMul[r["Monthly Claims"], R[12]]
                  = RMul[R[r["Active Accounts"]], R[10000]]
           /\ r["Approved Claims"]
                  = RMul[r["Monthly Claims"], self.TARGET_APPROVAL_RATE]
           /\ r["Denied Claims"] = RMul[r["Monthly Claims"], self.DENIAL_RATE]
           /\ RAdd[r["Approved Claims"], r["Denied Claims"]] = r["Monthly Claims"]
           /\ r["Month"] = 3 =>
                  /\ Fmt1[r["Monthly Claims"]] = "83333.3"
                  /\ r["Approved Claims"] = R[75000]
                  /\ Fmt1[r["Denied Claims"]] = "8333.3"

\* the period-3 record has been returned
C10_Witness ==
    /\ ReturnedRecord
    /\ last.ret["Month"] = 3
    /\ last.ret["Active Accounts"] = 100
    /\ RLt[R[0], last.ret["Denied Claims"]]

(***************************************************************************)
(* C11: the denial ramp-up factor lookup returns 0.0 for weeks 1 and 2,    *)
(* 1.0 for week 6 and every later week (week 10, absent from the curve,    *)
(* included), and over weeks 1..12 every value lies in [0, 1] and no week  *)
(* has a smaller factor than an earlier week.                              *)
(***************************************************************************)
C11_RampFactor ==
    last.op = "_get_denial_ramp_up_factor" =>
        /\ last.raised = "none"
        /\ last.arg \in {1, 2} => last.ret = R[0]
        /\ last.arg >= 6 => last.ret = R[1]
        /\ last.arg \in 1..12 =>
               /\ RLeq[R[0], last.ret] /\ RLeq[last.ret, R[1]]
               /\ \A v \in 1..last.arg :
                      RLeq[get_denial_ramp_up_factor(self, v), last.ret]

\* week 10, which the curve does not list, has been looked up
C11_Witness ==
    /\ last.op = "_get_denial_ramp_up_factor"
    /\ last.arg = 10
    /\ last.arg \notin DOMAIN self.DENIAL_RAMP_UP
    /\ last.ret = R[1]

(***************************************************************************)
(* C12: every record calculate_monthly_metrics returns for a period of     *)
(* 0..3 embeds, next to its scalar entries, an ordered sequence of exactly *)
(* 12 weekly denial entries whose week indices are 1..12 in order.         *)
(***************************************************************************)
C12_WeeklyEntries ==
    \A r \in LastRecords :
        \E k \in DOMAIN r \ MetricKeys :
            /\ Len(r[k]) = 12
            /\ \A w \in 1..12 : r[k][w].week = w

(***************************************************************************)
(* C13: in every record of a period of 0..3, Monthly Revenue equals        *)
(* Approved Claims x AVG_CLAIM_VALUE x REVENUE_PERCENTAGE multiplied by    *)
(* the revenue ramp-up factor of the period and by the collection rate.    *)
(***************************************************************************)
C13_RevenueFactors ==
    \A r \in LastRecords :
        r["Monthly Revenue"]
            = RMul[RMul[RMul[RMul[r["Approved Claims"], R[self.AVG_CLAIM_VALUE]],
                             self.REVENUE_PERCENTAGE],
                        Get(self.REVENUE_RAMP_UP, r["Month"], <<1, 1>>)],
                   self.COLLECTION_RATE]

(***************************************************************************)
(* C14: the record of period 0 has no operational analysts: its Total      *)
(* Analyst Count, Submission Analysts and Denial Analysts are 0, and no    *)
(* analyst or manager headcount contributes to the costs of that period    *)
(* (no core labor cost, no per-head software, office or training cost).    *)
(***************************************************************************)
C14_NoAnalystsAtStandUp ==
    \A r \in LastRecords :
        r["Month"] = 0 =>
            /\ r["Total Analyst Count"] = 0
            /\ r["Submission Analysts"] = 0
            /\ r["Denial Analysts"] = 0
            /\ r["Software Cost"] = R[0]
            /\ r["Office Cost"] = R[0]
            /\ r["Training Cost"] = R[0]

(***************************************************************************)
(* C15: in the record of period 0 Total Labor Cost is exactly the hiring   *)
(* team cost, 10000 + 798 + 2 x 532, with no core labor cost in it; in     *)
(* every record of a period of 1..3 Hiring Team Cost is 0 and Total Labor  *)
(* Cost = Core Labor Cost = Total Analyst Count x analyst salary + Manager *)
(* Count x manager salary.                                                 *)
(***************************************************************************)
C15_LaborCost ==
    \A r \in LastRecords :
        IF r["Month"] = 0
        THEN /\ r["Hiring Team Cost"] = 10000 + 798 + 2 * 532
             /\ r["Total Labor Cost"] = R[r["Hiring Team Cost"]]
        ELSE /\ r["Hiring Team Cost"] = 0
             /\ r["Total Labor Cost"] = r["Core Labor Cost"]
             /\ r["Core Labor Cost"]
                    = RAdd[RMul[R[r["Total Analyst Count"]], self.ANALYST_SALARY],
                           RMul[R[r["Manager Count"]], self.MANAGER_SALARY]]

\* a period-0 record whose core labor cost is positive and left out of the
\* total, and a later record paid as core labor
C15_Witness ==
    /\ last.op = "generate_report"
    /\ RLt[R[0], last.ret[1]["Core Labor Cost"]]
    /\ last.ret[1]["Total Labor Cost"] = R[11862]
    /\ last.ret[2]["Hiring Team Cost"] = 0
    /\ RLt[R[11862], last.ret[2]["Total Labor Cost"]]

\* n is the ceiling of x: the least whole number that is at least x
IsCeilingOf(n, x) == RLt[R[n - 1], x] /\ RLeq[x, R[n]]

(***************************************************************************)
(* C16: in every record of a period of 0..3, Submission Analysts is the    *)
(* ceiling of Total Analyst Count x 0.85 and Denial Analysts the ceiling   *)
(* of Total Analyst Count x 0.15, each rounded up on its own, so their sum *)
(* is Total Analyst Count or Total Analyst Count + 1.                      *)
(***************************************************************************)
C16_AnalystSplit ==
    \A r \in LastRecords :
        /\ IsCeilingOf(r["Submission Analysts"],
                       RMul[R[r["Total Analyst Count"]], <<17, 20>>])
        /\ IsCeilingOf(r["Denial Analysts"],
                       RMul[R[r["Total Analyst Count"]], <<3, 20>>])
        /\ r["Submission Analysts"] + r["Denial Analysts"]
               \in {r["Total Analyst Count"], r["Total Analyst Count"] + 1}

\* the two pools of the period-3 record sum to one more than its 231
\* analysts
C16_Witness ==
    /\ ReturnedRecord
    /\ last.ret["Total Analyst Count"] = 231
    /\ last.ret["Submission Analysts"] = 197
    /\ last.ret["Denial Analysts"] = 35

\* the minutes a day the analysts of a stream have, from the record's
\* headcount
AvailableMinutes(analysts) ==
    RMul[R[analysts * self.MINUTES_PER_DAY], self.AVAILABLE_TIME_FACTOR]

\* the minutes a day the submission stream of a record needs
SubmissionNeeded(r) == RMul[r["Daily Claims"], r["Time per Claim (min)"]]

\* the minutes a day the denial stream of a record needs
DenialNeeded(r) ==
    RMul[RMul[r["Daily Denied Claims"], r["Time per Claim (min)"]], <<3, 2>>]

(***************************************************************************)
(* C17 as claimed: in every record a stream's SLA flag is true exactly     *)
(* when the minutes the stream needs for the day are at most its available *)
(* minutes for the day times its day allowance (5 for submission, 3 for    *)
(* denial work); a stream whose flag is false always reports utilization   *)
(* 100; and with the shipped parameters both flags are true in all four    *)
(* periods.                                                                *)
(***************************************************************************)
C17_SlaFlagsAsClaimed ==
    \A r \in LastRecords :
        /\ r["Submission SLA Met"]
               = RLeq[SubmissionNeeded(r),
                      RMul[AvailableMinutes(r["Submission Analysts"]), R[5]]]
        /\ r["Denial SLA Met"]
               = RLeq[DenialNeeded(r),
                      RMul[AvailableMinutes(r["Denial Analysts"]), R[3]]]
        /\ ~r["Submission SLA Met"] => r["Submission Utilization %"] = R[100]
        /\ ~r["Denial SLA Met"] => r["Denial Utilization %"] = R[100]
        /\ self = NewModel => r["Submission SLA Met"] /\ r["Denial SLA Met"]

\* what a stream reports when its SLA flag is false: 100 when it has
\* analysts, 0 when it has none (the guard of the utilization)
MissedSlaUtilization(analysts) ==
    IF RLt[R[0], AvailableMinutes(analysts)] THEN R[100] ELSE R[0]

(***************************************************************************)
(* C17: in every record a stream's SLA flag is true exactly when the       *)
(* minutes the stream needs for the day are at most its available minutes  *)
(* for the day times its day allowance (5 for submission, 3 for denial     *)
(* work); a stream whose flag is false reports utilization 100 when it has *)
(* available minutes and utilization 0 when it has none; and with the      *)
(* shipped parameters both flags are true in all four periods.             *)
(***************************************************************************)
C17_SlaFlags ==
    \A r \in LastRecords :
        /\ r["Submission SLA Met"]
               = RLeq[SubmissionNeeded(r),
                      RMul[AvailableMinutes(r["Submission Analysts"]), R[5]]]
        /\ r["Denial SLA Met"]
               = RLeq[DenialNeeded(r),
                      RMul[AvailableMinutes(r["Denial Analysts"]), R[3]]]
        /\ ~r["Submission SLA Met"] =>
               r["Submission Utilization %"]
                   = MissedSlaUtilization(r["Submission Analysts"])
        /\ ~r["Denial SLA Met"] =>
               r["Denial Utilization %"]
                   = MissedSlaUtilization(r["Denial Analysts"])
        /\ self = NewModel => r["Submission SLA Met"] /\ r["Denial SLA Met"]

\* a report of an engine without denial analysts: in period 1 the denial
\* stream has work and no minutes, misses its SLA and reports utilization
\* 0; in period 0 it has no work and meets it
C17_Witness ==
    /\ last.op = "generate_report"
    /\ last.ret[2]["Denial Analysts"] = 0
    /\ RLt[R[0], DenialNeeded(last.ret[2])]
    /\ ~last.ret[2]["Denial SLA Met"]
    /\ last.ret[2]["Denial Utilization %"] = R[0]
    /\ last.ret[2]["Submission SLA Met"]
    /\ last.ret[1]["Denial SLA Met"]

\* a record whose denial stream has analysts, misses its SLA and reports
\* utilization 100
C17_MissedAtFull ==
    /\ ReturnedRecord
    /\ last.ret["Denial Analysts"] > 0
    /\ ~last.ret["Denial SLA Met"]
    /\ last.ret["Denial Utilization %"] = R[100]

\* the ceiling of a / b for whole numbers a >= 0 and b > 0
CeilDiv(a, b) == (a + b - 1) \div b

\* implementation staff of period p with n analysts: trainers, QA analysts
\* and onboarding staff for the accounts newly onboarded in p
StaffFor(p, n) ==
    CeilDiv(n, 10) + CeilDiv(n, 15) + CeilDiv(Schedule[p] * 14, 22 * 8)

(***************************************************************************)
(* C18: Implementation Staff is 0 in the record of period 0 and, in the    *)
(* record of a period p of 1..3, the whole number ceiling(Total Analyst    *)
(* Count / 10) + ceiling(Total Analyst Count / 15) + ceiling(new accounts  *)
(* of p x 14 / (22 x 8)), with the 10, 30, 60 accounts newly onboarded in  *)
(* p and not the cumulative active accounts; a direct call of              *)
(* calculate_implementation_staff returns the same.                        *)
(***************************************************************************)
C18_ImplementationStaff ==
    /\ \A r \in LastRecords :
           r["Implementation Staff"]
               = IF r["Month"] = 0 THEN 0
                 ELSE StaffFor(r["Month"], r["Total Analyst Count"])
    /\ last.op = "calculate_implementation_staff" =>
           last.ret = IF last.arg[1] = 0 THEN 0
                      ELSE StaffFor(last.arg[1], last.arg[2])

\* the period-2 record: 93 analysts and 30 new accounts give 10 + 7 + 3,
\* where its 40 active accounts would give one more
C18_Witness ==
    /\ ReturnedRecord
    /\ last.ret["Month"] = 2
    /\ last.ret["Total Analyst Count"] = 93
    /\ last.ret["Active Accounts"] = 40
    /\ last.ret["Implementation Staff"] = 20
    /\ CeilDiv(40 * 14, 22 * 8) = CeilDiv(30 * 14, 22 * 8) + 1
    /\ Len(returned[0]) > 0
    /\ returned[0][1].rec["Implementation Staff"] = 0

\* the ramp-up efficiency of periods 1, 2, 3
EfficiencyCurve == <<<<1, 2>>, <<3, 4>>, <<9, 10>>>>

(***************************************************************************)
(* C19: in every record of a period p of 1..3, Error Rate = (1 -           *)
(* efficiency(p)) x 2 with the efficiency 0.50, 0.75, 0.90 of the ramp-up  *)
(* curve, and Quality Bonus Cost = Total Analyst Count x bonus amount      *)
(* exactly when Error Rate is at or below 1 - quality_bonus_threshold and  *)
(* 0 otherwise; in the record of period 0 Efficiency Rate, Error Rate,     *)
(* Error Cost and Quality Bonus Cost are all 0.                            *)
(***************************************************************************)
C19_QualityOverlay ==
    \A r \in LastRecords :
        IF r["Month"] = 0
        THEN /\ r["Efficiency Rate"] = R[0]
             /\ r["Error Rate"] = R[0]
             /\ r["Error Cost"] = R[0]
             /\ r["Quality Bonus Cost"] = R[0]
        ELSE /\ r["Efficiency Rate"] = EfficiencyCurve[r["Month"]]
             /\ r["Error Rate"] = RMul[RSub[R[1], r["Efficiency Rate"]], R[2]]
             /\ r["Quality Bonus Cost"]
                    = IF RLeq[r["Error Rate"],
                              RSub[R[1], self.QUALITY_METRICS.quality_bonus_threshold]]
                      THEN R[r["Total Analyst Count"]
                             * self.QUALITY_METRICS.quality_bonus_amount]
                      ELSE R[0]

\* a report whose period-3 row earns the bonus with an error rate equal to
\* 1 - threshold, and whose period-1 row does not
C19_Witness ==
    /\ last.op = "generate_report"
    /\ last.ret[4]["Error Rate"]
           = RSub[R[1], self.QUALITY_METRICS.quality_bonus_threshold]
    /\ last.ret[4]["Quality Bonus Cost"] = R[231 * 50]
    /\ last.ret[2]["Error Rate"] = R[1]
    /\ last.ret[2]["Quality Bonus Cost"] = R[0]
    /\ last.ret[1]["Error Rate"] = R[0]

\* the latest call is the dashboard's calculate_metrics
IsDashboardCall == last.op = "calculate_metrics"

\* the record the engine returns for month m on this object
EngineRecord(m) ==
    calculate_monthly_metrics(self, [type |-> "int", val |-> m]).ret

(***************************************************************************)
(* C20: the dashboard is a faithful consumer of the engine's records: for  *)
(* every month m of 0..3 the 'Accounts' value calculate_metrics stores for *)
(* m equals the Active Accounts of calculate_monthly_metrics(m), and the   *)
(* 'Overhead' it adds up again equals that record's Total Overhead.        *)
(***************************************************************************)
C20_DashboardFaithful ==
    IsDashboardCall =>
        \A m \in 0..3 :
            /\ last.ret.monthly_metrics[m + 1]["Accounts"]
                   = R[EngineRecord(m)["Active Accounts"]]
            /\ last.ret.monthly_metrics[m + 1]["Overhead"]
                   = EngineRecord(m)["Total Overhead"]

====
